---- MODULE Spec2Model ----
(***************************************************************************)
(* Model of the evaluation pipeline of credit_card_fraud_project:          *)
(*   notebooks/3_one_class_svm.ipynb : ocsvm_train_test_split,             *)
(*                                     train_oneclass_svm, grid_search     *)
(*   notebooks/5_hdbscan.ipynb       : hdbscan_clustering,                 *)
(*                                     analyze_clusters,                   *)
(*                                     cluster_grid_search                 *)
(*                                                                         *)
(* Four specifications share the variables:                                *)
(*   SplitSpec   : calls of ocsvm_train_test_split on a label vector       *)
(*   Spec        : one run of grid_search or of cluster_grid_search        *)
(*   TrainSpec   : calls of train_oneclass_svm on one train/test split     *)
(*   AnalyzeSpec : a call of analyze_clusters on one clustering            *)
(***************************************************************************)
EXTENDS Integers, Sequences, FiniteSets, TLC

(* ------------------------------ bounds -------------------------------- *)
\* longest label vector y handed to the split
MaxRows == 5
\* number of times the split is called on the same input
MaxCalls == 2
\* the process-wide numpy generator starts in one of 0..MaxGlobal
MaxGlobal == 1
\* longest value list of a param_grid key; the values are 1..MaxVals
MaxVals == 2
\* most combinations a param_grid expands to
MaxCombos == 4
\* the F1 a cell returns is one of the ranks 0..MaxF1 (0 is F1 = 0.0)
MaxF1 == 2
\* rows of the frame handed to cluster_grid_search
MaxClusterRows == 2
\* the cluster ids are -1 (noise) and 0..MaxClusterId
MaxClusterId == 0
\* most rows of the X_train handed to train_oneclass_svm
MaxTrainRows == 1
\* most rows of X_test and y_test
MaxTestRows == 2
\* most rows of the frame handed to analyze_clusters
MaxAnalyzeRows == 3
\* the cluster ids analyze_clusters sees are -1 and 0..MaxAnalyzeId
MaxAnalyzeId == 1

(* ------------------------- program constants -------------------------- *)
\* test_size = 0.2, as a percentage
TestSizePercent == 20
\* random_state = 42
RandomSeed == 42

VARIABLES
    \* --- split (3_one_class_svm.ipynb) ---
    y,              \* the label vector: y[k] is the label of row k of X
    normal_class,   \* the normal_class argument
    np_random,      \* state of numpy's process-wide generator
    split_calls,    \* how many calls of the split have returned or raised
    split_out,      \* outcome of the latest call
    split_prev,     \* outcome of the call before it
    \* --- grid runs (both notebooks) ---
    fn,             \* "grid_search" or "cluster_grid_search"
    param_grid,     \* the dict, as the sequence of its items in key order
    label_df,       \* the Class column of label_df (cluster_grid_search)
    pc,             \* "start", "loop", "done" or "raised"
    iter_param,     \* the list of configurations
    i,              \* how many elements of iter_param the loop has taken
    counter,        \* cluster_grid_search's counter
    best_f1,        \* grid_search's best_f1
    best_param,     \* grid_search's best_param
    log,            \* the records written to the log file, in order
    exc,            \* the exception that ended the run, if any
    ret,            \* the value returned
    \* --- train_oneclass_svm (3_one_class_svm.ipynb) ---
    X_train,        \* the training rows: one feature value per row
    X_test,         \* the test rows: one feature value per row
    y_test,         \* the notebook's global y_test: one label per test row
    scaler,         \* the fitted parameters of the call's StandardScaler
    X_test_scaled,  \* the rows handed to oc_svm.predict
    svm_predict,    \* what oc_svm.predict returned: -1 or 1 per row
    predictions,    \* predictions after the conversion
    events,         \* the steps of the latest call, in order, each with
                    \* the wall-clock time it began at
    evaluation,     \* what the latest call logged and returned
    \* --- analyze_clusters (5_hdbscan.ipynb) ---
    eval_df,        \* label_df's Class column with the Cluster column
    analysis        \* the outcome of analyze_clusters on eval_df

split_vars == <<y, normal_class, np_random, split_calls, split_out, split_prev>>

grid_vars == <<fn, param_grid, label_df, pc, iter_param, i, counter,
               best_f1, best_param, log, exc, ret>>

train_vars == <<X_train, X_test, y_test, scaler, X_test_scaled, svm_predict,
                predictions, events, evaluation>>

analyze_vars == <<eval_df, analysis>>

vars == <<split_vars, grid_vars, train_vars, analyze_vars>>

(* ------------------- values of calls not yet made --------------------- *)

\* a number as a fraction; 0 / 0 is the nan numpy gives for 0 / 0
Frac(num, den) == [num |-> num, den |-> den]

nan == Frac(0, 0)

\* no StandardScaler was fitted yet
NoScaler == [n |-> 0, sum |-> 0, sumsq |-> 0]

\* train_oneclass_svm was not called yet
NoEvaluation ==
    [status |-> "none", time |-> 0, conf_matrix |-> <<>>,
     true_positive_rate |-> nan, false_positive_rate |-> nan,
     true_negative_rate |-> nan, false_negative_rate |-> nan,
     precision |-> nan, recall |-> nan, f1 |-> nan]

\* analyze_clusters was not called yet
NoAnalysis == [status |-> "none", record |-> [None |-> TRUE]]

\* the variables of train_oneclass_svm while another function runs
TrainIdle ==
    /\ X_train = <<>> /\ X_test = <<>> /\ y_test = <<>>
    /\ scaler = NoScaler /\ X_test_scaled = <<>> /\ svm_predict = <<>>
    /\ predictions = <<>> /\ events = <<>> /\ evaluation = NoEvaluation

\* the variables of analyze_clusters while another function runs
AnalyzeIdle == eval_df = <<>> /\ analysis = NoAnalysis

(* ====================== ocsvm_train_test_split ======================== *)

Labels == {0, 1}

Range(s) == {s[k] : k \in 1..Len(s)}

\* X[y == v] : the rows of X whose label is v, in source order.  A row of X
\* is named by its position in X (its index label).
Rows(ys, v) == SelectSeq([k \in 1..Len(ys) |-> k], LAMBDA k : ys[k] = v)

\* y[y == v] : the entries of y with value v, each keeping its index label.
Entries(ys, v) == [k \in 1..Len(Rows(ys, v)) |->
                      [row |-> Rows(ys, v)[k], label |-> v]]

\* numpy's generator, abstracted to a small linear congruential generator:
\* what matters is that a permutation is a function of the generator state.
RngNext(s) == (5 * s + 3) % 16

Remove(s, k) == SubSeq(s, 1, k - 1) \o SubSeq(s, k + 1, Len(s))

RECURSIVE Draw(_, _)
\* rng.permutation: draw without replacement, advancing the generator
Draw(pool, s) ==
    IF pool = <<>> THEN <<>>
    ELSE LET k == (s % Len(pool)) + 1
         IN  <<pool[k]>> \o Draw(Remove(pool, k), RngNext(s))

Permutation(n, s) == Draw([k \in 1..n |-> k], s)

RECURSIVE Advance(_, _)
Advance(s, n) == IF n = 0 THEN s ELSE Advance(RngNext(s), n - 1)

\* A mutant of SplitRng: random_state = None, the split draws from the
\* process-wide generator and advances it.
SplitRngGlobal(g, n) == [state |-> g, global |-> Advance(g, n)]

\* check_random_state(random_state = 42): a fresh generator seeded with the
\* constant; the process-wide generator g is neither read nor advanced.
SplitRng(g, n) == [state |-> RandomSeed % 16, global |-> g]

\* ceil(test_size * n_samples), exact for the pool sizes within MaxRows (the
\* float product 0.2 * n first exceeds the exact one at n = 15)
NTest(n) == (n * TestSizePercent + 99) \div 100

Pick(a, ind) == [k \in 1..Len(ind) |-> a[ind[k]]]

\* A mutant of TestIndices: the test slice is one element too long, so the
\* boundary row lands in both halves.
TestIndicesOverlap(perm, n_test) == SubSeq(perm, 1, n_test + 1)

\* ShuffleSplit: ind_test = permutation[:n_test]
TestIndices(perm, n_test) == SubSeq(perm, 1, n_test)

\* ShuffleSplit: ind_train = permutation[n_test:(n_test + n_train)]
TrainIndices(perm, n_test, n_train) == SubSeq(perm, n_test + 1, n_test + n_train)

NoSplit == [status |-> "none", X_train |-> <<>>, X_test |-> <<>>,
            y_train |-> <<>>, y_test |-> <<>>]

Raised(kind) == [status |-> kind, X_train |-> <<>>, X_test |-> <<>>,
                 y_train |-> <<>>, y_test |-> <<>>]

\* sklearn.model_selection.train_test_split(a, b, test_size = 0.2,
\* random_state = 42) as the split calls it: a is a frame, b a series.
train_test_split(a, b, s) ==
    IF Len(a) # Len(b)
    THEN [status |-> "ValueError"]          \* inconsistent numbers of samples
    ELSE LET n       == Len(a)
             n_test  == NTest(n)
             n_train == n - n_test
             perm    == Permutation(n, s)
         IN  IF n_train = 0
             THEN [status |-> "ValueError"] \* the train set would be empty
             ELSE [status  |-> "ok",
                   a_train |-> Pick(a, TrainIndices(perm, n_test, n_train)),
                   a_test  |-> Pick(a, TestIndices(perm, n_test)),
                   b_train |-> Pick(b, TrainIndices(perm, n_test, n_train)),
                   b_test  |-> Pick(b, TestIndices(perm, n_test))]

\* X_train = X[y == 0] : the pool is the rows labelled 0, whatever
\* normal_class is.
TrainPool(ys, nc) == Rows(ys, 0)

\* X_test = X[y == 1].copy()
AnomalousRows(ys) == Rows(ys, 1)

ocsvm_train_test_split(ys, nc, s) ==
    LET X_train0 == TrainPool(ys, nc)
        X_test0  == AnomalousRows(ys)
        y_test0  == Entries(ys, 1)
        r        == train_test_split(X_train0, Entries(ys, nc), s)
    IN  IF r.status # "ok"
        THEN Raised(r.status)
        ELSE [status  |-> "ok",
              X_train |-> r.a_train,
              X_test  |-> X_test0 \o r.a_test,
              y_train |-> r.b_train,
              y_test  |-> y_test0 \o r.b_test]

LabelVectors == UNION {[1..n -> Labels] : n \in 0..MaxRows}

\* the grid variables while only the split runs
GridIdle ==
    /\ fn = "none" /\ param_grid = <<>> /\ label_df = <<>> /\ pc = "idle"
    /\ iter_param = <<>> /\ i = 0 /\ counter = 0 /\ best_f1 = 0
    /\ best_param = [None |-> TRUE] /\ log = <<>>
    /\ exc = [type |-> "none", at |-> "none", cell |-> 0] /\ ret = [None |-> TRUE]

SplitInit ==
    /\ GridIdle
    /\ TrainIdle
    /\ AnalyzeIdle
    /\ y \in LabelVectors
    /\ normal_class \in Labels
    /\ np_random \in 0..MaxGlobal
    /\ split_calls = 0
    /\ split_out = NoSplit
    /\ split_prev = NoSplit

\* X_train, X_test, y_train, y_test = ocsvm_train_test_split(X, y, normal_class)
CallSplit ==
    /\ split_calls < MaxCalls
    /\ LET rng == SplitRng(np_random, Len(TrainPool(y, normal_class)))
       IN  /\ split_out' = ocsvm_train_test_split(y, normal_class, rng.state)
           /\ np_random' = rng.global
    /\ split_prev' = split_out
    /\ split_calls' = split_calls + 1
    /\ UNCHANGED <<y, normal_class>>
    /\ UNCHANGED <<grid_vars, train_vars, analyze_vars>>

SplitNext == CallSplit

SplitSpec == SplitInit /\ [][SplitNext]_vars

(* ============================ grid expansion ========================== *)

\* Python's None
None == [None |-> TRUE]

\* the exception that ended the run: its type, the statement that raised it
\* and the pass of the loop (0 before the loop)
NoExc == [type |-> "none", at |-> "none", cell |-> 0]

\* keys, values = zip(*param_grid.items())
Keys(grid) == [k \in 1..Len(grid) |-> grid[k].key]

Values(grid) == [k \in 1..Len(grid) |-> grid[k].values]

RECURSIVE Flatten(_)
Flatten(ss) == IF ss = <<>> THEN <<>> ELSE Head(ss) \o Flatten(Tail(ss))

\* A mutant of Extend: the loops are nested the other way round, so the
\* first key varies fastest.
ExtendPoolOuter(result, pool) ==
    Flatten([v \in 1..Len(pool) |->
                [r \in 1..Len(result) |-> Append(result[r], pool[v])]])

\* itertools.product, one pool: [x + [y] for x in result for y in pool]
Extend(result, pool) ==
    Flatten([r \in 1..Len(result) |->
                [v \in 1..Len(pool) |-> Append(result[r], pool[v])]])

RECURSIVE ProductFrom(_, _)
ProductFrom(result, pools) ==
    IF pools = <<>> THEN result
    ELSE ProductFrom(Extend(result, Head(pools)), Tail(pools))

\* itertools.product(*values)
product(pools) == ProductFrom(<< <<>> >>, pools)

\* dict(zip(keys, combo))
Config(keys, combo) ==
    [name \in Range(keys) |-> combo[CHOOSE k \in 1..Len(keys) : keys[k] = name]]

\* [dict(zip(keys, combo)) for combo in itertools.product(*values)]
IterParam(grid) ==
    LET combos == product(Values(grid))
    IN  [j \in 1..Len(combos) |-> Config(Keys(grid), combos[j])]

\* a record of the log: the message, the configuration and the training time
\* it carries (None, FALSE when it carries none) and its other fields
Record(msg, params, time, fields) ==
    [msg |-> msg, params |-> params, time |-> time, fields |-> fields]

(* ========================= train_oneclass_svm ========================= *)

\* the keyword arguments of OneClassSVM among the modelled keys
SvmParams == {"nu", "gamma"}

\* OneClassSVM(**params) raises TypeError on a keyword it does not take
SvmTakes(p) == DOMAIN p \subseteq SvmParams

\* logger.info("Model Trained | Train Time (Minutes): ... | Parameters | ...")
TrainedRecord(p) == Record("Model Trained", p, TRUE, None)

\* logger.debug("Model Evaluation (1/2) | TP: ... | FN: ... | TN: ... | FP: ...")
RatesRecord == Record("Model Evaluation (1/2)", None, FALSE, None)

\* logger.debug("Model Evaluation (2/2) | Precision: ... | Recall: ... | F1: ...")
ScoresRecord(f1) == Record("Model Evaluation (2/2)", None, FALSE, [f1 |-> f1])

(* ============================= grid_search ============================ *)

\* A mutant of Better: a tie replaces the best configuration.
BetterOrEqual(f1, best) == f1 >= best

\* A mutant of Better: every configuration replaces the best one.
AlwaysBetter(f1, best) == f1 >= 0

\* if f1 > best_f1
Better(f1, best) == f1 > best

GridSearchExpand ==
    /\ fn = "grid_search" /\ pc = "start"
    /\ IF param_grid = <<>>
       THEN \* zip() of nothing: not enough values to unpack
            /\ pc' = "raised"
            /\ exc' = [type |-> "ValueError", at |-> "expand", cell |-> 0]
            /\ UNCHANGED <<iter_param, log, best_f1, best_param>>
       ELSE /\ iter_param' = IterParam(param_grid)
            /\ log' = Append(log, Record("Grid Search Initiated", None, FALSE,
                                  [combinations |-> Len(IterParam(param_grid))]))
            /\ best_f1' = 0
            /\ best_param' = None
            /\ pc' = "loop"
            /\ UNCHANGED exc
    /\ UNCHANGED <<fn, param_grid, label_df, i, counter, ret>>
    /\ UNCHANGED <<split_vars, train_vars, analyze_vars>>

\* one pass of "for p in iter_param" in which OneClassSVM(**p) or fit raises:
\* nothing is logged and the exception leaves grid_search
GridSearchCellFitRaises ==
    /\ fn = "grid_search" /\ pc = "loop" /\ i < Len(iter_param)
    /\ LET p == iter_param[i + 1]
       IN  \E type \in {"TypeError", "ValueError"} :
              /\ type = "TypeError" <=> ~SvmTakes(p)
              /\ exc' = [type |-> type, at |-> "fit", cell |-> i + 1]
    /\ i' = i + 1
    /\ pc' = "raised"
    /\ UNCHANGED <<fn, param_grid, label_df, iter_param, counter, best_f1,
                   best_param, log, ret>>
    /\ UNCHANGED <<split_vars, train_vars, analyze_vars>>

\* one pass in which the model is trained and logged, and
\* "TN, FP, FN, TP = conf_matrix.ravel()" raises: y_test and the predictions
\* hold one class between them, the matrix is 1 x 1
GridSearchCellUnpackRaises ==
    /\ fn = "grid_search" /\ pc = "loop" /\ i < Len(iter_param)
    /\ LET p == iter_param[i + 1]
       IN  /\ SvmTakes(p)
           /\ log' = Append(log, TrainedRecord(p))
    /\ exc' = [type |-> "ValueError", at |-> "unpack", cell |-> i + 1]
    /\ i' = i + 1
    /\ pc' = "raised"
    /\ UNCHANGED <<fn, param_grid, label_df, iter_param, counter, best_f1,
                   best_param, ret>>
    /\ UNCHANGED <<split_vars, train_vars, analyze_vars>>

\* one pass in which train_oneclass_svm returns f1
GridSearchCellReturns ==
    /\ fn = "grid_search" /\ pc = "loop" /\ i < Len(iter_param)
    /\ LET p == iter_param[i + 1]
       IN  /\ SvmTakes(p)
           /\ \E f1 \in 0..MaxF1 :
                 /\ log' = log \o <<TrainedRecord(p), RatesRecord, ScoresRecord(f1)>>
                 /\ IF Better(f1, best_f1)
                    THEN best_f1' = f1 /\ best_param' = p
                    ELSE UNCHANGED <<best_f1, best_param>>
    /\ i' = i + 1
    /\ UNCHANGED <<fn, param_grid, label_df, iter_param, counter, pc, exc, ret>>
    /\ UNCHANGED <<split_vars, train_vars, analyze_vars>>

\* the loop is over: the result is logged and best_param returned
GridSearchReturn ==
    /\ fn = "grid_search" /\ pc = "loop" /\ i = Len(iter_param)
    /\ log' = Append(log, Record("Grid Search Results", best_param, FALSE,
                                 [f1 |-> best_f1]))
    /\ ret' = best_param
    /\ pc' = "done"
    /\ UNCHANGED <<fn, param_grid, label_df, iter_param, i, counter, best_f1,
                   best_param, exc>>
    /\ UNCHANGED <<split_vars, train_vars, analyze_vars>>

(* ========================= hdbscan_clustering ========================= *)

\* the keyword arguments of HDBSCAN among the modelled keys
ClusterParams == {"min_samples", "n_jobs"}

\* HDBSCAN(**params) raises TypeError on a keyword it does not take
HdbscanTakes(p) == DOMAIN p \subseteq ClusterParams

\* A mutant of SetNJobs: n_jobs is set only when the caller did not set it.
SetNJobsDefault(p) ==
    [name \in DOMAIN p \cup {"n_jobs"} |-> IF name \in DOMAIN p THEN p[name] ELSE -1]

\* params["n_jobs"] = -1 : the caller's dict is written to
SetNJobs(p) ==
    [name \in DOMAIN p \cup {"n_jobs"} |-> IF name = "n_jobs" THEN -1 ELSE p[name]]

\* the cluster ids fit_predict may give a row; -1 is noise
ClusterIds == -1..MaxClusterId

(* ========================== analyze_clusters ========================== *)

Count(s, v) == Cardinality({k \in 1..Len(s) : s[k] = v})

\* A mutant of RoundHalfEven: the quotient is cut off, not rounded.
RoundDown(num, den) == num \div den

\* round(num / den, 0), halves to even, as numpy's round does
RoundHalfEven(num, den) ==
    LET q == num \div den
        r == num % den
    IN  IF 2 * r < den THEN q
        ELSE IF 2 * r > den THEN q + 1
        ELSE IF q % 2 = 0 THEN q ELSE q + 1

\* ((total_noise_count / eval_df.shape[0]) * 100).round(2), in hundredths of
\* a percent
NoisePct(noise, rows) == RoundHalfEven(10000 * noise, rows)

\* analyze_clusters(params, label_df, cluster_labels): the record it logs, or
\* the KeyError of distribution.loc[-1, 1] when the table has no row -1 or no
\* column 1
analyze_clusters(p, classes, cluster_labels) ==
    LET rows == 1..Len(classes)
        cluster_count     == Cardinality(Range(cluster_labels))
        total_noise_count == Count(cluster_labels, -1)
        total_fraud_count == Count(classes, 1)
        noise_fraud_count ==
            Cardinality({k \in rows : cluster_labels[k] = -1 /\ classes[k] = 1})
    IN  IF -1 \notin Range(cluster_labels) \/ 1 \notin Range(classes)
        THEN [status |-> "KeyError", record |-> None]
        ELSE [status |-> "ok",
              record |-> Record("Parameters", p, FALSE,
                  [clusters         |-> cluster_count,
                   noise_pct        |-> NoisePct(total_noise_count, Len(classes)),
                   fraud_in_cluster |-> total_fraud_count - noise_fraud_count,
                   fraud_in_noise   |-> noise_fraud_count])]

(* ========================= cluster_grid_search ======================== *)

\* logger.info(f"Search {counter} / {combinations}")
SearchRecord(c, n) == Record("Search", None, FALSE, [counter |-> c, combinations |-> n])

ClusterExpand ==
    /\ fn = "cluster_grid_search" /\ pc = "start"
    /\ IF param_grid = <<>>
       THEN \* zip() of nothing: not enough values to unpack
            /\ pc' = "raised"
            /\ exc' = [type |-> "ValueError", at |-> "expand", cell |-> 0]
            /\ UNCHANGED <<iter_param, log, counter>>
       ELSE /\ iter_param' = IterParam(param_grid)
            /\ log' = Append(log, Record("Grid Search Initiated", None, FALSE,
                                  [combinations |-> Len(IterParam(param_grid))]))
            /\ counter' = 1
            /\ pc' = "loop"
            /\ UNCHANGED exc
    /\ UNCHANGED <<fn, param_grid, label_df, i, best_f1, best_param, ret>>
    /\ UNCHANGED <<split_vars, train_vars, analyze_vars>>

\* one pass of "for p in iter_param" in which HDBSCAN(**params) or
\* fit_predict raises, after p was given n_jobs
ClusterCellFitRaises ==
    /\ fn = "cluster_grid_search" /\ pc = "loop" /\ i < Len(iter_param)
    /\ LET p == SetNJobs(iter_param[i + 1])
       IN  /\ iter_param' = [iter_param EXCEPT ![i + 1] = p]
           /\ \E type \in {"TypeError", "ValueError"} :
                 /\ type = "TypeError" <=> ~HdbscanTakes(p)
                 /\ exc' = [type |-> type, at |-> "fit", cell |-> i + 1]
    /\ log' = Append(log, SearchRecord(counter, Len(iter_param)))
    /\ i' = i + 1
    /\ pc' = "raised"
    /\ UNCHANGED <<fn, param_grid, label_df, counter, best_f1, best_param, ret>>
    /\ UNCHANGED <<split_vars, train_vars, analyze_vars>>

\* one pass in which the rows are clustered and analyze_clusters raises
ClusterCellLookupRaises ==
    /\ fn = "cluster_grid_search" /\ pc = "loop" /\ i < Len(iter_param)
    /\ LET p == SetNJobs(iter_param[i + 1])
       IN  /\ HdbscanTakes(p)
           /\ iter_param' = [iter_param EXCEPT ![i + 1] = p]
           /\ \E cluster_labels \in [1..Len(label_df) -> ClusterIds] :
                 /\ analyze_clusters(p, label_df, cluster_labels).status = "KeyError"
                 /\ exc' = [type |-> "KeyError", at |-> "lookup", cell |-> i + 1]
    /\ log' = Append(log, SearchRecord(counter, Len(iter_param)))
    /\ i' = i + 1
    /\ pc' = "raised"
    /\ UNCHANGED <<fn, param_grid, label_df, counter, best_f1, best_param, ret>>
    /\ UNCHANGED <<split_vars, train_vars, analyze_vars>>

\* one pass in which the rows are clustered and analyze_clusters logs its record
ClusterCellReturns ==
    /\ fn = "cluster_grid_search" /\ pc = "loop" /\ i < Len(iter_param)
    /\ LET p == SetNJobs(iter_param[i + 1])
       IN  /\ HdbscanTakes(p)
           /\ iter_param' = [iter_param EXCEPT ![i + 1] = p]
           /\ \E cluster_labels \in [1..Len(label_df) -> ClusterIds] :
                 LET a == analyze_clusters(p, label_df, cluster_labels)
                 IN  /\ a.status = "ok"
                     /\ log' = log \o <<SearchRecord(counter, Len(iter_param)),
                                        a.record>>
    /\ i' = i + 1
    /\ counter' = counter + 1
    /\ UNCHANGED <<fn, param_grid, label_df, pc, best_f1, best_param, exc, ret>>
    /\ UNCHANGED <<split_vars, train_vars, analyze_vars>>

\* the loop is over: cluster_grid_search returns None
ClusterReturn ==
    /\ fn = "cluster_grid_search" /\ pc = "loop" /\ i = Len(iter_param)
    /\ ret' = None
    /\ pc' = "done"
    /\ UNCHANGED <<fn, param_grid, label_df, iter_param, i, counter, best_f1,
                   best_param, log, exc>>
    /\ UNCHANGED <<split_vars, train_vars, analyze_vars>>

(* ============================ the grid runs =========================== *)

\* the orders in which the keys of a param_grid may be supplied
KeyOrders ==
    {<<>>, <<"nu">>, <<"gamma">>, <<"nu", "gamma">>, <<"gamma", "nu">>,
     <<"min_samples">>, <<"n_jobs">>, <<"min_samples", "n_jobs">>,
     <<"n_jobs", "min_samples">>}

\* the value lists: n distinct values, 1..n in some order, n <= MaxVals
ValueLists ==
    {vs \in UNION {[1..n -> 1..n] : n \in 0..MaxVals} :
        \A a, b \in 1..Len(vs) : vs[a] = vs[b] => a = b}

RECURSIVE Combinations(_)
Combinations(pools) ==
    IF pools = <<>> THEN 1 ELSE Len(Head(pools)) * Combinations(Tail(pools))

ParamGrids ==
    {g \in UNION {{[k \in 1..Len(ks) |-> [key |-> ks[k], values |-> vs[k]]] :
                     vs \in [1..Len(ks) -> ValueLists]} : ks \in KeyOrders} :
        Combinations(Values(g)) <= MaxCombos}

LabelFrames == UNION {[1..n -> Labels] : n \in 1..MaxClusterRows}

\* the split variables while a grid runs
SplitIdle ==
    /\ y = <<>> /\ normal_class = 0 /\ np_random = 0 /\ split_calls = 0
    /\ split_out = NoSplit /\ split_prev = NoSplit

Init ==
    /\ SplitIdle
    /\ TrainIdle
    /\ AnalyzeIdle
    /\ fn \in {"grid_search", "cluster_grid_search"}
    /\ param_grid \in ParamGrids
    /\ label_df \in (IF fn = "cluster_grid_search" THEN LabelFrames ELSE {<<>>})
    /\ pc = "start"
    /\ iter_param = <<>>
    /\ i = 0
    /\ counter = 0
    /\ best_f1 = 0
    /\ best_param = None
    /\ log = <<>>
    /\ exc = NoExc
    /\ ret = None

Next ==
    \/ GridSearchExpand
    \/ GridSearchCellFitRaises
    \/ GridSearchCellUnpackRaises
    \/ GridSearchCellReturns
    \/ GridSearchReturn
    \/ ClusterExpand
    \/ ClusterCellFitRaises
    \/ ClusterCellLookupRaises
    \/ ClusterCellReturns
    \/ ClusterReturn

Spec == Init /\ [][Next]_vars

(* =================== train_oneclass_svm: its calls ==================== *)

RECURSIVE Sum(_)
Sum(s) == IF s = <<>> THEN 0 ELSE Head(s) + Sum(Tail(s))

\* scaler.fit: mean_ = sum / n and var_ = sumsq / n - mean_ ^ 2, kept as the
\* sums they are computed from
StandardScalerFit(X) ==
    [n |-> Len(X), sum |-> Sum(X), sumsq |-> Sum([k \in 1..Len(X) |-> X[k] * X[k]])]

\* scaler.transform: (x - mean_) / scale_, where scale_ is sqrt(var_), or 1
\* when var_ = 0. The value of a row is num / sqrt(den2).
transform(sc, X) ==
    LET v == sc.n * sc.sumsq - sc.sum * sc.sum
    IN  [k \in 1..Len(X) |->
            [num |-> sc.n * X[k] - sc.sum, den2 |-> IF v = 0 THEN sc.n * sc.n ELSE v]]

\* A mutant of TransformTest: the scaler is fitted again, on the test rows.
TransformTestRefit(sc, X) == transform(StandardScalerFit(X), X)

\* X_test_scaled = scaler.transform(X_test)
TransformTest(sc, X) == transform(sc, X)

\* A mutant of ToBinary: the inliers become 1.
ToBinaryInliers(pred) == [k \in 1..Len(pred) |-> IF pred[k] = 1 THEN 1 ELSE 0]

\* (predictions == -1).astype(int)
ToBinary(pred) == [k \in 1..Len(pred) |-> IF pred[k] = -1 THEN 1 ELSE 0]

\* divmod(total_training_time_seconds, 60) and f"{int(minutes):02}:{int(seconds):02}"
FormattedTime(t) == [minutes |-> t \div 60, seconds |-> t % 60]

RECURSIVE Sorted(_)
Sorted(S) ==
    IF S = {} THEN <<>>
    ELSE LET m == CHOOSE a \in S : \A b \in S : a <= b
         IN  <<m>> \o Sorted(S \ {m})

\* confusion_matrix(y_true, y_pred).ravel(): one row per label that occurs in
\* y_true or y_pred, in sorted order, one column per such label; the cell of
\* row a and column b counts the rows of true label a predicted b
ConfusionMatrix(y_true, y_pred) ==
    LET labels == Sorted(Range(y_true) \cup Range(y_pred))
    IN  Flatten([a \in 1..Len(labels) |->
                    [b \in 1..Len(labels) |->
                        Cardinality({k \in 1..Len(y_true) :
                            y_true[k] = labels[a] /\ y_pred[k] = labels[b]})]])

\* (num / den) * 100 on numpy integers: 0 / 0 is nan, with a warning
Rate(num, den) == Frac(100 * num, den)

\* sklearn's _prf_divide with zero_division = "warn": a quotient whose
\* denominator is 0 is set to 0.0, with a warning
PrfDivide(num, den) == IF den = 0 THEN Frac(0, 1) ELSE Frac(num, den)

\* tp_sum, pred_sum and true_sum of the positive label 1
TpSum(y_true, y_pred) ==
    Cardinality({k \in 1..Len(y_true) : y_true[k] = 1 /\ y_pred[k] = 1})

\* A mutant of precision_score: the true positives over the actual positives.
PrecisionOverTrueSum(y_true, y_pred) ==
    PrfDivide(TpSum(y_true, y_pred), Count(y_true, 1))

\* precision_score(y_true, y_pred)
precision_score(y_true, y_pred) ==
    PrfDivide(TpSum(y_true, y_pred), Count(y_pred, 1))

\* recall_score(y_true, y_pred)
recall_score(y_true, y_pred) ==
    PrfDivide(TpSum(y_true, y_pred), Count(y_true, 1))

\* f1_score(y_true, y_pred)
f1_score(y_true, y_pred) ==
    PrfDivide(2 * TpSum(y_true, y_pred), Count(y_true, 1) + Count(y_pred, 1))

\* the feature values of a row
FeatureValues == {0, 1}

\* the seconds a step may take
Durations == {0, 61}

\* the steps of a call that returns, in the order of the statements, each
\* with the time at which it begins: the scaling takes d_scale seconds, the
\* fit d_train seconds and the other steps none
TrainSteps(d_scale, d_train) ==
    <<[op |-> "scale",      at |-> 0],
      [op |-> "start_time", at |-> d_scale],
      [op |-> "OneClassSVM", at |-> d_scale],
      [op |-> "fit",        at |-> d_scale],
      [op |-> "predict",    at |-> d_scale + d_train],
      [op |-> "astype",     at |-> d_scale + d_train],
      [op |-> "end_time",   at |-> d_scale + d_train]>>

\* the time at which the step op of a call began
At(steps, op) == steps[CHOOSE k \in 1..Len(steps) : steps[k].op = op].at

\* total_training_time_seconds = end_time - start_time
TrainingTime(steps) == At(steps, "end_time") - At(steps, "start_time")

TrainInit ==
    /\ SplitIdle
    /\ GridIdle
    /\ AnalyzeIdle
    /\ X_train \in UNION {[1..n -> FeatureValues] : n \in 1..MaxTrainRows}
    /\ \E n \in 1..MaxTestRows :
          /\ X_test \in [1..n -> FeatureValues]
          /\ y_test \in [1..n -> Labels]
    /\ scaler = NoScaler
    /\ X_test_scaled = <<>>
    /\ svm_predict = <<>>
    /\ predictions = <<>>
    /\ events = <<>>
    /\ evaluation = NoEvaluation

\* the scaling at the head of train_oneclass_svm
Scale ==
    /\ scaler' = StandardScalerFit(X_train)
    /\ X_test_scaled' = TransformTest(StandardScalerFit(X_train), X_test)

\* a call in which OneClassSVM(**params) or oc_svm.fit raises
TrainFitRaises ==
    /\ Scale
    /\ \E d_scale \in Durations, raising \in {"OneClassSVM", "fit"} :
          /\ events' = SubSeq(TrainSteps(d_scale, 0), 1,
                              IF raising = "OneClassSVM" THEN 3 ELSE 4)
          /\ evaluation' = [NoEvaluation EXCEPT !.status = raising]
    /\ svm_predict' = <<>>
    /\ predictions' = <<>>
    /\ UNCHANGED <<X_train, X_test, y_test>>
    /\ UNCHANGED <<split_vars, grid_vars, analyze_vars>>

\* A mutant of Trained: the converted predictions are written into the
\* notebook's y_test, which the next call then reads.
TrainedOverwritesLabels(d_scale, d_train, raw) ==
    /\ scaler' = StandardScalerFit(X_train)
    /\ X_test_scaled' = TransformTest(StandardScalerFit(X_train), X_test)
    /\ svm_predict' = raw
    /\ predictions' = ToBinary(raw)
    /\ y_test' = ToBinary(raw)
    /\ events' = TrainSteps(d_scale, d_train)
    /\ UNCHANGED <<X_train, X_test>>
    /\ UNCHANGED <<split_vars, grid_vars, analyze_vars>>

\* the steps of a call from the scaling to the confusion matrix
Trained(d_scale, d_train, raw) ==
    /\ Scale
    /\ svm_predict' = raw
    /\ predictions' = ToBinary(raw)
    /\ events' = TrainSteps(d_scale, d_train)
    /\ UNCHANGED <<X_train, X_test, y_test>>
    /\ UNCHANGED <<split_vars, grid_vars, analyze_vars>>

\* what a call logs and returns once "TN, FP, FN, TP = conf_matrix.ravel()"
\* has unpacked the matrix: the time, the four rates and the three scores
Evaluation(conf_matrix, y_pred, time) ==
    LET TN == conf_matrix[1]
        FP == conf_matrix[2]
        FN == conf_matrix[3]
        TP == conf_matrix[4]
    IN  [status |-> "returned",
         time |-> time,
         conf_matrix |-> conf_matrix,
         true_positive_rate  |-> Rate(TP, TP + FN),
         false_positive_rate |-> Rate(FP, FP + TN),
         true_negative_rate  |-> Rate(TN, TN + FP),
         false_negative_rate |-> Rate(FN, FN + TP),
         precision |-> precision_score(y_test, y_pred),
         recall    |-> recall_score(y_test, y_pred),
         f1        |-> f1_score(y_test, y_pred)]

\* a call that logs "Model Trained" and in which
\* "TN, FP, FN, TP = conf_matrix.ravel()" raises: the matrix is not 2 x 2
TrainUnpackRaises ==
    \E raw \in [1..Len(X_test) -> {-1, 1}] :
        /\ Len(ConfusionMatrix(y_test, ToBinary(raw))) # 4
        /\ \E d_scale, d_train \in Durations :
              /\ Trained(d_scale, d_train, raw)
              /\ evaluation' =
                    [NoEvaluation EXCEPT
                        !.status = "unpack",
                        !.time = FormattedTime(TrainingTime(TrainSteps(d_scale, d_train))),
                        !.conf_matrix = ConfusionMatrix(y_test, ToBinary(raw))]

\* a call that returns f1
TrainReturns ==
    \E raw \in [1..Len(X_test) -> {-1, 1}] :
        /\ Len(ConfusionMatrix(y_test, ToBinary(raw))) = 4
        /\ \E d_scale, d_train \in Durations :
              /\ Trained(d_scale, d_train, raw)
              /\ evaluation' =
                    Evaluation(ConfusionMatrix(y_test, ToBinary(raw)), ToBinary(raw),
                               FormattedTime(TrainingTime(TrainSteps(d_scale, d_train))))

TrainNext ==
    \/ TrainFitRaises
    \/ TrainUnpackRaises
    \/ TrainReturns

TrainSpec == TrainInit /\ [][TrainNext]_vars

(* ==================== analyze_clusters: its calls ===================== *)

\* the cluster ids of the rows handed to analyze_clusters; -1 is noise
AnalyzeIds == -1..MaxAnalyzeId

\* the configurations analyze_clusters is handed: hdbscan_clustering has
\* set their n_jobs
AnalyzeParams == {SetNJobs([min_samples |-> v]) : v \in 1..MaxVals}

\* the columns of eval_df
Column(df, name) == [k \in 1..Len(df) |-> df[k][name]]

AnalyzeInit ==
    /\ SplitIdle
    /\ GridIdle
    /\ TrainIdle
    /\ eval_df \in UNION {[1..n -> [Class : Labels, Cluster : AnalyzeIds]] :
                            n \in 1..MaxAnalyzeRows}
    /\ analysis = NoAnalysis

\* a call in which distribution.loc[-1, 1] raises KeyError
AnalyzeLookupRaises ==
    /\ \E p \in AnalyzeParams :
          LET a == analyze_clusters(p, Column(eval_df, "Class"),
                                       Column(eval_df, "Cluster"))
          IN  a.status = "KeyError" /\ analysis' = a
    /\ UNCHANGED eval_df
    /\ UNCHANGED <<split_vars, grid_vars, train_vars>>

\* a call that logs its record
AnalyzeReturns ==
    /\ \E p \in AnalyzeParams :
          LET a == analyze_clusters(p, Column(eval_df, "Class"),
                                       Column(eval_df, "Cluster"))
          IN  a.status = "ok" /\ analysis' = a
    /\ UNCHANGED eval_df
    /\ UNCHANGED <<split_vars, grid_vars, train_vars>>

AnalyzeNext ==
    \/ AnalyzeLookupRaises
    \/ AnalyzeReturns

AnalyzeSpec == AnalyzeInit /\ [][AnalyzeNext]_vars

(* ============================ claims: split =========================== *)

Occurrences(s, x) == Cardinality({k \in 1..Len(s) : s[k] = x})

Returned == split_out.status = "ok"

\* C1: every row the split returns in X_train has label normal_class in the
\* source y, and every entry of y_train equals normal_class.
C1_TrainRowsAreNormal ==
    Returned =>
        /\ \A k \in Range(split_out.X_train) : y[k] = normal_class
        /\ \A e \in Range(split_out.y_train) : e.label = normal_class

\* C2: every row of X whose label is the non-normal value is in the X_test
\* the split returns.
C2_AnomalousRowsInTest ==
    Returned =>
        \A k \in 1..Len(y) :
            y[k] # normal_class => k \in Range(split_out.X_test)

\* C3: the rows of X_train and of X_test (the anomalous rows and the held-out
\* rows) together are every row of X exactly once.
C3_EveryRowExactlyOnce ==
    Returned =>
        /\ Len(split_out.X_train) + Len(split_out.X_test) = Len(y)
        /\ \A k \in 1..Len(y) :
              Occurrences(split_out.X_train \o split_out.X_test, k) = 1

\* C3 witness: a split that returned a train set of several rows, held-out
\* rows and anomalous rows.
C3_Witness ==
    /\ Returned
    /\ Len(split_out.X_train) >= 3
    /\ \E k \in Range(split_out.X_test) : y[k] = 1
    /\ \E k \in Range(split_out.X_test) : y[k] = 0

\* C4: the split ends in an error, returning no partition, whenever no row
\* has label normal_class or y holds fewer than two distinct classes.
C4_FailsOnEmptyPoolOrOneClass ==
    (split_calls > 0 /\ (Rows(y, normal_class) = <<>> \/ Cardinality(Range(y)) < 2))
        => split_out.status \notin {"ok", "none"}

\* C5: two calls of the split on the same (X, y, normal_class) return the
\* same rows in the same order in each of X_train, X_test, y_train, y_test.
C5_SplitRepeatable ==
    split_calls >= 2 => split_out = split_prev

\* C5 witness: the split returned twice, shuffling a pool of several rows.
C5_Witness ==
    /\ split_calls >= 2
    /\ Returned
    /\ split_prev.status = "ok"
    /\ Len(split_out.X_train) >= 3
    /\ split_out.X_train # Rows(y, 0)

(* ============================ claims: grids =========================== *)

Ended == pc \in {"done", "raised"}

\* the run got past the expansion of param_grid
Expanded == pc \in {"loop", "done"} \/ (pc = "raised" /\ exc.at # "expand")

\* the records that report the evaluation of a configuration
ConfigRecords ==
    SelectSeq(log, LAMBDA r : r.msg \in {"Model Trained", "Parameters"})

\* the F1 of each pass of grid_search so far, as logged
Scores ==
    LET rs == SelectSeq(log, LAMBDA r : r.msg = "Model Evaluation (2/2)")
    IN  [j \in 1..Len(rs) |-> rs[j].fields.f1]

MaxScore ==
    IF Scores = <<>> THEN 0
    ELSE CHOOSE m \in Range(Scores) : \A v \in Range(Scores) : v <= m

FirstWith(v) ==
    CHOOSE j \in 1..Len(Scores) :
        Scores[j] = v /\ \A k \in 1..(j - 1) : Scores[k] # v

\* C6: when the fit of a configuration fails during a grid run, the log holds
\* a record for that cell with the configuration and a failure marker in
\* place of metrics, and the run goes on with the remaining configurations.
C6_FitFailureRecordedRunContinues ==
    exc.at = "fit" =>
        /\ pc # "raised"
        /\ \E r \in Range(log) :
              r.params = iter_param[exc.cell] /\ r.fields = [failed |-> TRUE]

\* C7: a grid run ends, and when it has ended (returned, or was left by an
\* exception) every configuration of the product has been attempted, also
\* when some cell failed.
C7_EndedHavingAttemptedAll ==
    Ended => i = Len(iter_param)

\* C8 as stated: when two configurations tie on the best F1, whatever its
\* value, grid_search returns the first of them in enumeration order.
C8_TieReturnsFirst ==
    (fn = "grid_search" /\ pc = "done") =>
        \A a, b \in 1..Len(Scores) :
            (a < b /\ Scores[a] = Scores[b] /\ Scores[a] = MaxScore)
                => ret = iter_param[FirstWith(MaxScore)]

\* C8 amended: best_param changes only to a configuration whose F1 is
\* strictly greater than best_f1; grid_search returns the first configuration
\* in enumeration order that attains the greatest F1 when that F1 is greater
\* than 0, and None when no configuration has an F1 greater than 0.
C8_FirstBestReturned ==
    /\ [](  (fn = "grid_search" /\ pc = "done") =>
               IF MaxScore > 0
               THEN ret = iter_param[FirstWith(MaxScore)]
               ELSE ret = None)
    /\ [][best_param' # best_param => best_f1' > best_f1]_vars

\* C8 witness: grid_search returned after two configurations tied on the
\* greatest F1, greater than 0, behind a configuration with a smaller F1.
C8_Witness ==
    /\ fn = "grid_search" /\ pc = "done"
    /\ MaxScore > 0
    /\ \E a, b \in 2..Len(Scores) :
          a < b /\ Scores[a] = MaxScore /\ Scores[b] = MaxScore
    /\ Scores[1] < MaxScore /\ Scores[1] > 0

\* the index, in the value list of key k, of the value configuration j takes:
\* the last key varies fastest
Digit(grid, k, j) ==
    (((j - 1) \div Combinations(SubSeq(Values(grid), k + 1, Len(grid))))
        % Len(grid[k].values)) + 1

\* configuration j of the product, in closed form
Combination(grid, j) ==
    [name \in Range(Keys(grid)) |->
        LET k == CHOOSE k \in 1..Len(grid) : grid[k].key = name
        IN  grid[k].values[Digit(grid, k, j)]]

\* C9: in both grid functions iter_param is the whole Cartesian product of
\* the value lists, configuration j being the j-th combination with the
\* first key varying slowest and the last key fastest; so it is a function
\* of param_grid alone, the same in every run and in both functions.  (A
\* configuration cluster_grid_search has taken carries n_jobs as well.)
C9_EnumerationOrder ==
    Expanded =>
        /\ Len(iter_param) = Combinations(Values(param_grid))
        /\ \A j \in 1..Len(iter_param) :
              iter_param[j] =
                  IF fn = "cluster_grid_search" /\ j <= i
                  THEN SetNJobs(Combination(param_grid, j))
                  ELSE Combination(param_grid, j)

\* C9 witness: a grid of two keys with two values each, one list not in
\* ascending order, expanded to four configurations.
C9_Witness ==
    /\ pc = "loop" /\ i = 0
    /\ Len(param_grid) = 2
    /\ param_grid[1].values = <<2, 1>>
    /\ Len(param_grid[2].values) = 2
    /\ Len(iter_param) = 4

\* C10: when a grid run has ended, the log holds exactly one evaluation
\* record per combination, in enumeration order, each with the full
\* configuration of its cell.
C10_OneRecordPerCombination ==
    (Ended /\ Expanded) =>
        /\ Len(ConfigRecords) = Combinations(Values(param_grid))
        /\ \A j \in 1..Len(ConfigRecords) :
              ConfigRecords[j].params = iter_param[j]

(* ===================== claims: records of a cell ====================== *)

\* C11: every record a grid run writes for a cell, in grid_search and in
\* cluster_grid_search, carries the configuration of the cell, the elapsed
\* training time of the cell and the metrics of the cell.
C11_CellRecordHasConfigTimeMetrics ==
    \A k \in 1..Len(ConfigRecords) :
        /\ ConfigRecords[k].params # None
        /\ ConfigRecords[k].time
        /\ ConfigRecords[k].fields # None

(* =================== claims: train_oneclass_svm ======================= *)

\* the latest call of train_oneclass_svm got its predictions
Predicted == evaluation.status \in {"unpack", "returned"}

\* C12: in train_oneclass_svm the estimator's prediction -1 of a test row
\* becomes 1 (outlier) and its prediction 1 becomes 0 (inlier); the converted
\* predictions hold one value of {0, 1} per test row, in the order of the rows.
C12_BoundaryConversion ==
    Predicted =>
        /\ Len(svm_predict) = Len(X_test)
        /\ Len(predictions) = Len(X_test)
        /\ \A k \in 1..Len(X_test) :
              /\ predictions[k] \in {0, 1}
              /\ svm_predict[k] = -1 => predictions[k] = 1
              /\ svm_predict[k] = 1 => predictions[k] = 0

\* C12 witness: a call whose estimator found the first test row an outlier
\* and the second an inlier has returned.
C12_Witness ==
    /\ evaluation.status = "returned"
    /\ svm_predict = <<-1, 1>>
    /\ predictions = <<1, 0>>

\* the latest call of train_oneclass_svm got past its scaling
Scaled == evaluation.status # "none"

\* C13: in every evaluation of a boundary model the scaling parameters are
\* those fitted on X_train, and X_test is transformed with these same
\* parameters; after no call, whatever calls came before it, do the
\* parameters come from the test rows.
C13_ScalerFitOnTrainOnly ==
    Scaled =>
        /\ scaler = StandardScalerFit(X_train)
        /\ X_test_scaled = transform(StandardScalerFit(X_train), X_test)

\* C13 witness: a call has returned whose test rows have another mean and
\* variance than its training row, so that a scaler fitted on them would
\* have scaled them otherwise.
C13_Witness ==
    /\ evaluation.status = "returned"
    /\ X_train = <<1>>
    /\ X_test = <<0, 1>>
    /\ scaler = [n |-> 1, sum |-> 1, sumsq |-> 1]
    /\ X_test_scaled = <<[num |-> -1, den2 |-> 1], [num |-> 0, den2 |-> 1]>>
    /\ X_test_scaled # transform(StandardScalerFit(X_test), X_test)

\* the place of the step op among the steps of the latest call
Place(op) == CHOOSE k \in 1..Len(events) : events[k].op = op

\* C14: the elapsed time a boundary model's call records covers the scaling:
\* the steps of a call come in the order start of the timer, scaling,
\* construction, fit, prediction, end of the timer, and the time recorded is
\* the time from the start of the scaling to the end of the prediction.
C14_TimerCoversScaling ==
    Predicted =>
        /\ Place("start_time") < Place("scale")
        /\ Place("scale") < Place("OneClassSVM")
        /\ Place("OneClassSVM") < Place("fit")
        /\ Place("fit") < Place("predict")
        /\ Place("predict") < Place("end_time")
        /\ evaluation.time =
              FormattedTime(At(events, "end_time") - At(events, "scale"))

\* the confusion counts of the latest call, counted on the rows with
\* positive = anomalous: the label is 1, the estimator said -1
CountRows(label, native) ==
    Cardinality({k \in 1..Len(y_test) : y_test[k] = label /\ svm_predict[k] = native})

TrueNegatives == CountRows(0, 1)

FalsePositives == CountRows(0, -1)

FalseNegatives == CountRows(1, 1)

TruePositives == CountRows(1, -1)

\* arithmetic of fractions
FracEq(a, b) == a.den # 0 /\ b.den # 0 /\ a.num * b.den = b.num * a.den

FracAdd(a, b) == Frac(a.num * b.den + b.num * a.den, a.den * b.den)

FracMul(a, b) == Frac(a.num * b.num, a.den * b.den)

FracDiv(a, b) == Frac(a.num * b.den, a.den * b.num)

\* 2 * precision * recall / (precision + recall)
HarmonicMean(p, r) == FracDiv(FracMul(Frac(2, 1), FracMul(p, r)), FracAdd(p, r))

\* the test set of the specification's example: ten inliers predicted
\* inliers, two inliers predicted outliers, five outliers predicted outliers
\* and one outlier predicted an inlier
ExampleYTest == [k \in 1..18 |-> IF k <= 12 THEN 0 ELSE 1]

ExamplePredict ==
    [k \in 1..18 |-> IF k <= 10 THEN 1 ELSE IF k <= 17 THEN -1 ELSE 1]

\* C15: the metrics of a boundary model are those computed by hand from the
\* confusion counts with positive = anomalous, wherever the quotient is
\* defined: precision = TP / (TP + FP), recall = TP / (TP + FN),
\* F1 = 2 * precision * recall / (precision + recall), and the rates
\* TPR = TP / (TP + FN) * 100, FPR = FP / (FP + TN) * 100,
\* TNR = TN / (TN + FP) * 100, FNR = FN / (FN + TP) * 100.  On the example
\* TN = 10, FP = 2, TP = 5, FN = 1 they are 5/7, 5/6 and 10/13.
C15_MetricsFromConfusionCounts ==
    /\ evaluation.status = "returned" =>
          LET TN == TrueNegatives
              FP == FalsePositives
              FN == FalseNegatives
              TP == TruePositives
              P  == Frac(TP, TP + FP)
              R  == Frac(TP, TP + FN)
          IN  /\ evaluation.conf_matrix = <<TN, FP, FN, TP>>
              /\ TP + FP > 0 => FracEq(evaluation.precision, P)
              /\ TP + FN > 0 =>
                    /\ FracEq(evaluation.recall, R)
                    /\ FracEq(evaluation.true_positive_rate, Frac(100 * TP, TP + FN))
                    /\ FracEq(evaluation.false_negative_rate, Frac(100 * FN, FN + TP))
              /\ FP + TN > 0 =>
                    /\ FracEq(evaluation.false_positive_rate, Frac(100 * FP, FP + TN))
                    /\ FracEq(evaluation.true_negative_rate, Frac(100 * TN, TN + FP))
              /\ TP > 0 => FracEq(evaluation.f1, HarmonicMean(P, R))
    /\ ConfusionMatrix(ExampleYTest, ToBinary(ExamplePredict)) = <<10, 2, 1, 5>>
    /\ FracEq(precision_score(ExampleYTest, ToBinary(ExamplePredict)), Frac(5, 7))
    /\ FracEq(recall_score(ExampleYTest, ToBinary(ExamplePredict)), Frac(5, 6))
    /\ FracEq(f1_score(ExampleYTest, ToBinary(ExamplePredict)), Frac(10, 13))

\* C15 witness: a call has returned on an inlier and an outlier that the
\* estimator both found outliers: TP = 1 and FP = 1, precision 1/2, recall 1
\* and F1 2/3, and every denominator is positive.
C15_Witness ==
    /\ evaluation.status = "returned"
    /\ y_test = <<0, 1>>
    /\ svm_predict = <<-1, -1>>
    /\ evaluation.conf_matrix = <<0, 1, 0, 1>>
    /\ evaluation.precision = Frac(1, 2)
    /\ evaluation.recall = Frac(1, 1)
    /\ evaluation.f1 = Frac(2, 3)
    /\ evaluation.false_positive_rate = Frac(100, 1)

\* C16: whenever the denominator of a rate or of a metric of a boundary model
\* is zero, the call still completes and reports that rate or metric as
\* undefined: it neither reports 0 for it nor ends in an exception.
C16_ZeroDenominatorUndefined ==
    Predicted =>
        LET TN == TrueNegatives
            FP == FalsePositives
            FN == FalseNegatives
            TP == TruePositives
        IN  /\ (TP + FP = 0 \/ TP + FN = 0 \/ FP + TN = 0) =>
                  evaluation.status = "returned"
            /\ TP + FP = 0 => evaluation.precision = nan
            /\ TP + FN = 0 =>
                  /\ evaluation.recall = nan
                  /\ evaluation.true_positive_rate = nan
                  /\ evaluation.false_negative_rate = nan
            /\ FP + TN = 0 =>
                  /\ evaluation.false_positive_rate = nan
                  /\ evaluation.true_negative_rate = nan
            /\ TP = 0 => evaluation.f1 = nan

(* ===================== claims: analyze_clusters ======================= *)

\* analyze_clusters was called on eval_df
Analyzed == analysis.status # "none"

\* the rows of eval_df of a cluster id, and those among them of class 1
RowsOfCluster(c) == {k \in 1..Len(eval_df) : eval_df[k].Cluster = c}

FraudRows == {k \in 1..Len(eval_df) : eval_df[k].Class = 1}

\* C17: when no row has the cluster id -1, analyze_clusters completes without
\* an error and reports no noise and no fraud in noise: fraud_in_noise is 0,
\* not a failed lookup.
C17_NoNoiseReportsZero ==
    (Analyzed /\ RowsOfCluster(-1) = {}) =>
        /\ analysis.status = "ok"
        /\ analysis.record.fields.noise_pct = 0
        /\ analysis.record.fields.fraud_in_noise = 0

\* the cluster ids that occur in eval_df
ClustersOf(df) == {df[k].Cluster : k \in 1..Len(df)}

\* C18: the cluster count that analyze_clusters reports is the number of
\* distinct cluster ids other than -1: the noise id is not counted as a
\* cluster, whether noise rows are present or not.
C18_ClusterCountExcludesNoise ==
    analysis.status = "ok" =>
        analysis.record.fields.clusters = Cardinality(ClustersOf(eval_df) \ {-1})

\* C19: for every label vector and every cluster assignment, those without a
\* positive row included, analyze_clusters reports as fraud in noise the
\* number of rows with cluster id -1 and class 1 and as fraud in clusters the
\* number of rows of class 1 less the fraud in noise, so that the two add up
\* to the number of rows of class 1 and each lies between 0 and that number.
C19_FraudSplitsIntoNoiseAndClusters ==
    Analyzed =>
        /\ analysis.status = "ok"
        /\ LET total == Cardinality(FraudRows)
               in_noise == analysis.record.fields.fraud_in_noise
               in_clusters == analysis.record.fields.fraud_in_cluster
           IN  /\ in_noise = Cardinality(RowsOfCluster(-1) \cap FraudRows)
               /\ in_clusters = total - in_noise
               /\ in_clusters + in_noise = total
               /\ in_noise \in 0..total
               /\ in_clusters \in 0..total

Abs(n) == IF n < 0 THEN -n ELSE n

\* C20: the noise count is the number of rows with cluster id -1, and the
\* noise percentage that analyze_clusters reports is that count over the
\* number of rows, times 100, rounded to two decimal places: in hundredths of
\* a percent it is a whole number within half a hundredth of the quotient,
\* and it lies between 0 and 100 percent.
C20_NoisePercentage ==
    analysis.status = "ok" =>
        LET noise_count == Cardinality(RowsOfCluster(-1))
            total_rows == Len(eval_df)
            pct == analysis.record.fields.noise_pct
        IN  /\ 2 * Abs(pct * total_rows - 10000 * noise_count) <= total_rows
            /\ pct \in 0..10000

\* C20 witness: a record was logged for three rows of which two are noise:
\* 66.666... percent, reported as 66.67.
C20_Witness ==
    /\ analysis.status = "ok"
    /\ Len(eval_df) = 3
    /\ Cardinality(RowsOfCluster(-1)) = 2
    /\ analysis.record.fields.noise_pct = 6667

(* ===================== claims: configurations ========================= *)

\* C21: a configuration is immutable: evaluating it, in hdbscan_clustering,
\* in train_oneclass_svm or in a pass of either grid loop, leaves the caller's
\* mapping with the keys and values it had before, so that every element of
\* iter_param stays the combination it was built from.
C21_ConfigurationUnchanged ==
    Expanded =>
        \A j \in 1..Len(iter_param) : iter_param[j] = Combination(param_grid, j)

\* C22: the estimator of a cluster fit is always constructed with
\* n_jobs = -1, whatever configuration the caller supplied, also one that
\* sets n_jobs to another value: the mapping that every pass taken so far
\* handed to HDBSCAN(**params), and that analyze_clusters logged, has it.
C22_NJobsAlwaysAllCores ==
    (fn = "cluster_grid_search" /\ Expanded) =>
        /\ \A j \in 1..i :
              /\ "n_jobs" \in DOMAIN iter_param[j]
              /\ iter_param[j]["n_jobs"] = -1
        /\ \A k \in 1..Len(ConfigRecords) : ConfigRecords[k].params["n_jobs"] = -1

\* C22 witness: a grid whose configurations set n_jobs to 1 and to 2; the
\* first was clustered and analysed, with n_jobs = -1.
C22_Witness ==
    /\ fn = "cluster_grid_search"
    /\ param_grid = <<[key |-> "n_jobs", values |-> <<1, 2>>]>>
    /\ i = 1
    /\ iter_param = <<[n_jobs |-> -1], [n_jobs |-> 2]>>
    /\ Len(ConfigRecords) = 1
    /\ ConfigRecords[1].params = [n_jobs |-> -1]

(* ================== claims: order of the partitions =================== *)

\* the labels of s are, entry by entry, the source labels of the rows of rows
Aligned(rows, s) ==
    /\ Len(s) = Len(rows)
    /\ \A k \in 1..Len(rows) : s[k].label = y[rows[k]]

\* C23: the test partition the split returns is in concatenation order: the
\* anomalous rows, in source order, and then the held-out normal rows; y_test
\* is aligned with X_test, entry k being the source label of row k and both
\* of one length, and y_train is aligned with X_train in the same way.
C23_TestPartitionOrderAndAlignment ==
    Returned =>
        LET anomalous == Rows(y, 1 - normal_class)
        IN  /\ Len(split_out.X_test) >= Len(anomalous)
            /\ SubSeq(split_out.X_test, 1, Len(anomalous)) = anomalous
            /\ \A k \in (Len(anomalous) + 1)..Len(split_out.X_test) :
                  y[split_out.X_test[k]] = normal_class
            /\ Aligned(split_out.X_test, split_out.y_test)
            /\ Aligned(split_out.X_train, split_out.y_train)

(* ================= claims: state across grid cells ==================== *)

\* the label frame is the same after every step of a grid run
LabelFrameUnchanged == [][label_df' = label_df]_vars

BestSoFar ==
    CHOOSE m \in Range(Scores) \cup {0} : \A v \in Range(Scores) \cup {0} : v <= m

\* C25: throughout grid_search, after every pass best_f1 is the greatest of 0
\* and the F1 values of the configurations evaluated so far and never
\* decreases, and best_param is None exactly when none of them had F1 > 0;
\* so grid_search returns None when every configuration has F1 = 0 and when
\* a value list of param_grid is empty.
C25_BestIsMaxSoFar ==
    /\ []((fn = "grid_search" /\ Expanded) =>
            /\ best_f1 = BestSoFar
            /\ best_param = None <=> \A k \in 1..Len(Scores) : Scores[k] = 0
            /\ pc = "done" =>
                  /\ ret = best_param
                  /\ (\A k \in 1..Len(Scores) : Scores[k] = 0) => ret = None
                  /\ (\E k \in 1..Len(param_grid) : param_grid[k].values = <<>>)
                        => ret = None)
    /\ [][best_f1' >= best_f1]_vars

\* C25 witness: grid_search has returned None after two configurations that
\* both had F1 = 0.
C25_Witness ==
    /\ fn = "grid_search"
    /\ pc = "done"
    /\ Len(iter_param) = 2
    /\ Scores = <<0, 0>>
    /\ best_f1 = 0
    /\ ret = None

====
